---- MODULE Spec2Model ----
(***************************************************************************)
(* Voice-session pipeline of the AI Voice Agent server.                    *)
(*                                                                         *)
(*   Spec      /ws/turn-detection  (websocket_turn_detection)              *)
(*   SpecWA    /ws/audio           (websocket_audio)                       *)
(*   SpecChat  ChatManager.add_message on its own                          *)
(*                                                                         *)
(* Time is counted in half seconds, so that transcription_interval (0.5 s) *)
(* is 1 and turn_timeout (1.5 s) is 3.  A text is a string; the response   *)
(* accumulated from the LLM stream is the sequence of its increments.      *)
(***************************************************************************)
EXTENDS Integers, Sequences, FiniteSets, TLC

\* ------------------------------------------------------------------ bounds
MaxMsgs == 3
MaxClock == 5
MaxChunks == 1
MaxIncrements == 1
MaxAdds == 53
MaxMillis == 2
MaxTurns == 1

\* ------------------------------------------------------- program constants
TranscriptionInterval == 1
TurnTimeout == 3
StreamChunkSize == 512
AudioTranscriptionInterval == 2
EarlyTtsThreshold == 30
MinFirstSentence == 10
AudioChunkSize == 256
MAX_CHAT_HISTORY == 50

NonBlankTexts == {"hi", "ok"}
BlankTexts == {"", " "}
Fragments == {1}
LlmIncrements == {"Sure"}
LlmErrorText == "[LLM streaming error]"
TtsEngineOutcomes ==
  {[status |-> "ok", b64len |-> 600], [status |-> "timeout", b64len |-> 0]}
NoEngine == [status |-> "none", b64len |-> 0]

\* the strip() test dropped: no text counts as blank
NeverBlank(text) == FALSE

\* text.strip() == ""
Blank(text) == text \in BlankTexts

\* accumulated_response.strip() == "" for a response held as its increments
BlankResponse(r) == \A i \in 1..Len(r) : Blank(r[i])

VARIABLES
  sttKey, geminiKey, murfKey,
  open, inbox, nSent, now,
  pc, caller,
  current_transcript, last_speech_time, is_speaking,
  audio_chunks, transcription_buffer, last_transcription_time, current_time,
  audio_data, accumulated_response, history,
  out, deadSends,
  llmCalls, ttsCalls, ttsEngine, llmRaised,
  lastSpeechText, speechAt, turnEndsSinceSpeech, handling, sttInvokedAt,
  store, added, session_id,
  base64_audio, tts_chunk_size, base64_chunks, success,
  current_file_path, tts_started, transcript, outbox, resume, early

clientVars == <<open, inbox, nSent, now>>
configVars == <<sttKey, geminiKey, murfKey>>
sessionVars == <<pc, caller, current_transcript, last_speech_time, is_speaking,
                 audio_chunks, transcription_buffer, last_transcription_time,
                 current_time, audio_data, accumulated_response, history, out,
                 deadSends,
                 llmCalls, ttsCalls, ttsEngine, llmRaised, lastSpeechText,
                 speechAt, turnEndsSinceSpeech, handling, sttInvokedAt>>
chatVars == <<store, added, session_id>>
ttsVars == <<base64_audio, tts_chunk_size, base64_chunks, success>>
audioVars == <<current_file_path, tts_started, transcript, outbox, resume, early>>
vars == <<configVars, clientVars, sessionVars, chatVars, ttsVars, audioVars>>

\* --------------------------------------------------------------- messages
StatusMsg(m) == [type |-> "status", message |-> m]
TurnEndMsg(t) == [type |-> "turn_end", transcript |-> t]
TranscriptionUpdateMsg(t) == [type |-> "transcription_update", transcript |-> t]
ChunkReceivedMsg(n) == [type |-> "chunk_received", chunk_size |-> n]
ErrorMsg(m) == [type |-> "error", message |-> m]
PongMsg == [type |-> "pong"]
LlmChunkMsg(c) == [type |-> "llm_stream_chunk", chunk |-> c, is_complete |-> FALSE]
LlmCompleteMsg(r, n) ==
  [type |-> "llm_stream_chunk", chunk |-> "", is_complete |-> TRUE,
   full_response |-> r, message_count |-> n]
AudioChunkMsg(c, i, n, r) ==
  [type |-> "murf_base64_audio_chunk", chunk |-> c, chunk_index |-> i,
   total_chunks |-> n, is_complete |-> FALSE, text |-> r]
AudioCompleteMsg(n, r) ==
  [type |-> "murf_base64_audio_chunk", chunk |-> <<>>, chunk_index |-> n,
   total_chunks |-> n, is_complete |-> TRUE, text |-> r]
ConversationCompleteMsg(u, r, n) ==
  [type |-> "conversation_complete", user_message |-> u,
   assistant_response |-> r, message_count |-> n]
AudioFallbackMsg(e) == [type |-> "audio_fallback", error |-> e]
PipelineErrorMsg(e) == [type |-> "pipeline_error", error |-> e]

\* ------------------------------------------------------------ ChatManager
\* add_message truncating to the oldest entries, [:MAX] for [-MAX:]
add_message_keeps_oldest(h, role, content) ==
  LET a == Append(h, [role |-> role, content |-> content])
  IN IF Len(a) > MAX_CHAT_HISTORY THEN SubSeq(a, 1, MAX_CHAT_HISTORY) ELSE a

\* ChatManager.add_message on one session's list
add_message(h, role, content) ==
  LET a == Append(h, [role |-> role, content |-> content])
  IN IF Len(a) > MAX_CHAT_HISTORY
       THEN SubSeq(a, Len(a) - MAX_CHAT_HISTORY + 1, Len(a))
       ELSE a

\* ------------------------------------------------------------- TTSService
Min(a, b) == IF a < b THEN a ELSE b

\* base64_audio[i:i + chunk_size] for i in range(0, len(base64_audio), chunk_size):
\* the encoded audio is its length n, a chunk is the slice <<from, to>> of it
SplitChunks(n, chunk_size) ==
  [k \in 1..((n + chunk_size - 1) \div chunk_size) |->
     <<(k - 1) * chunk_size, Min(k * chunk_size, n)>>]

\* the name assigned before the headers are built
CurrentApiKeyAssigned == TRUE

\* Whether the name current_api_key is bound where the request headers are built.
\* generate_streaming_base64_audio and generate_fast_base64_audio never assign
\* it (only generate_speech does), so building the headers raises NameError
\* before the request is made.
CurrentApiKeyBound == FALSE

TtsFailure(e) == [success |-> FALSE, chunks |-> <<>>, error_type |-> e]

\* TTSService.generate_streaming_base64_audio; engine is what the Murf service
\* would answer to the request
generate_streaming_base64_audio(text, chunk_size, engine) ==
  IF ~murfKey THEN TtsFailure("api_key_missing")
  ELSE IF BlankResponse(text) THEN TtsFailure("tts_error")
  ELSE IF ~CurrentApiKeyBound THEN TtsFailure("tts_error")
  ELSE IF engine.status = "timeout" THEN TtsFailure("timeout_error")
  ELSE IF engine.status # "ok" THEN TtsFailure("tts_error")
  ELSE [success |-> TRUE, chunks |-> SplitChunks(engine.b64len, chunk_size),
        error_type |-> "none"]

\* ------------------------------------------------- the handler's local state
\* The locals of websocket_turn_detection, the connection's outbound side and
\* the bookkeeping, as one record the handler's statements are applied to in
\* program order.  exc: an exception is propagating.
Local ==
  [pc |-> pc, caller |-> caller, exc |-> FALSE,
   current_transcript |-> current_transcript,
   last_speech_time |-> last_speech_time, is_speaking |-> is_speaking,
   audio_chunks |-> audio_chunks, transcription_buffer |-> transcription_buffer,
   last_transcription_time |-> last_transcription_time,
   current_time |-> current_time, audio_data |-> audio_data,
   accumulated_response |-> accumulated_response, history |-> history,
   out |-> out, deadSends |-> deadSends,
   llmCalls |-> llmCalls, ttsCalls |-> ttsCalls, ttsEngine |-> ttsEngine,
   llmRaised |-> llmRaised, lastSpeechText |-> lastSpeechText,
   speechAt |-> speechAt,
   turnEndsSinceSpeech |-> turnEndsSinceSpeech,
   handling |-> handling, sttInvokedAt |-> sttInvokedAt]

Commit(s) ==
  /\ pc' = s.pc
  /\ caller' = s.caller
  /\ current_transcript' = s.current_transcript
  /\ last_speech_time' = s.last_speech_time
  /\ is_speaking' = s.is_speaking
  /\ audio_chunks' = s.audio_chunks
  /\ transcription_buffer' = s.transcription_buffer
  /\ last_transcription_time' = s.last_transcription_time
  /\ current_time' = s.current_time
  /\ audio_data' = s.audio_data
  /\ accumulated_response' = s.accumulated_response
  /\ history' = s.history
  /\ out' = s.out
  /\ deadSends' = s.deadSends
  /\ llmCalls' = s.llmCalls
  /\ ttsCalls' = s.ttsCalls
  /\ ttsEngine' = s.ttsEngine
  /\ llmRaised' = s.llmRaised
  /\ lastSpeechText' = s.lastSpeechText
  /\ speechAt' = s.speechAt
  /\ turnEndsSinceSpeech' = s.turnEndsSinceSpeech
  /\ handling' = s.handling
  /\ sttInvokedAt' = s.sttInvokedAt

\* ws.send(json.dumps(m)): delivered while the connection is open; on a closed
\* connection the send raises and nothing is delivered
Send(s, m) ==
  IF s.exc THEN s
  ELSE IF open THEN [s EXCEPT !.out = Append(@, m)]
  ELSE [s EXCEPT !.exc = TRUE, !.deadSends = @ \cup {m.type}]

RECURSIVE SendAll(_, _)
SendAll(s, ms) ==
  IF ms = <<>> THEN s ELSE SendAll(Send(s, Head(ms)), Tail(ms))

Caught(s) == [s EXCEPT !.exc = FALSE]

\* ------------------------------------------- send_turn_end_notification
\* the guard dropped
TurnPendingAlways(s) == TRUE

\* the guard of send_turn_end_notification
TurnPending(s) == s.is_speaking /\ ~Blank(s.current_transcript)

\* the turn not reset
ClearTurnSkipped(s) == s

\* the turn reset with the transcript kept
ClearTurnKeepsTranscript(s) ==
  IF s.exc THEN s ELSE [s EXCEPT !.is_speaking = FALSE]

\* the turn reset with the detector left in SPEAKING
ClearTurnKeepsSpeaking(s) ==
  IF s.exc THEN s ELSE [s EXCEPT !.current_transcript = ""]

\* the last two statements of send_turn_end_notification; skipped when an
\* exception propagates out of it
ClearTurn(s) ==
  IF s.exc THEN s
  ELSE [s EXCEPT !.current_transcript = "", !.is_speaking = FALSE]

\* the pipeline entered whether or not the LLM key is configured
TurnEndEntryKeyUnchecked(s) ==
  IF ~TurnPending(s) THEN s
  ELSE
    LET s1 == Send(s, TurnEndMsg(s.current_transcript))
        s2 == [s1 EXCEPT !.turnEndsSinceSpeech = @ + 1,
                         !.llmRaised = FALSE, !.ttsEngine = NoEngine]
    IN IF s1.exc THEN s1
       ELSE [s2 EXCEPT !.history = add_message(@, "user", s.current_transcript),
                       !.accumulated_response = <<>>,
                       !.llmCalls = @ + 1, !.pc = "llm"]

\* the pipeline entered without the user entry being added to the history
TurnEndEntryNoHistory(s) ==
  IF ~TurnPending(s) THEN s
  ELSE
    LET s1 == Send(s, TurnEndMsg(s.current_transcript))
        s2 == [s1 EXCEPT !.turnEndsSinceSpeech = @ + 1,
                         !.llmRaised = FALSE, !.ttsEngine = NoEngine]
    IN IF s1.exc THEN s1
       ELSE IF geminiKey
         THEN [s2 EXCEPT !.accumulated_response = <<>>,
                         !.llmCalls = @ + 1, !.pc = "llm"]
         ELSE ClearTurn(Send(s2, PipelineErrorMsg("Gemini API key not configured")))

\* send_turn_end_notification from its call to the start of the LLM stream
\* (pc "llm"), or to its return when the pipeline is not entered
TurnEndEntry(s) ==
  IF ~TurnPending(s) THEN s
  ELSE
    LET s1 == Send(s, TurnEndMsg(s.current_transcript))
        s2 == [s1 EXCEPT !.turnEndsSinceSpeech = @ + 1,
                         !.llmRaised = FALSE, !.ttsEngine = NoEngine]
    IN IF s1.exc THEN s1
       ELSE IF geminiKey
         THEN [s2 EXCEPT !.history = add_message(@, "user", s.current_transcript),
                         !.accumulated_response = <<>>,
                         !.llmCalls = @ + 1, !.pc = "llm"]
         ELSE ClearTurn(Send(s2, PipelineErrorMsg("Gemini API key not configured")))

\* the increment put in front of the accumulated response
StreamChunkPrepended(s, c) ==
  Send([s EXCEPT !.accumulated_response = <<c>> \o @], LlmChunkMsg(c))

\* one pass of the loop over llm_service.generate_streaming_response
StreamChunk(s, c) ==
  Send([s EXCEPT !.accumulated_response = Append(@, c)], LlmChunkMsg(c))

\* except Exception of the pipeline: report pipeline_error
PipelineExcept(s) ==
  IF s.exc THEN Send(Caught(s), PipelineErrorMsg("AI pipeline error")) ELSE s

\* the pipeline synthesizing before it sends the completion signal
PipelineTailAudioFirst(s, engine) ==
  LET r == s.accumulated_response
      s1 == [s EXCEPT !.history = add_message(@, "assistant", r),
                      !.ttsCalls = @ + 1, !.ttsEngine = engine]
      a == generate_streaming_base64_audio(r, StreamChunkSize, engine)
      s2 == IF a.success THEN s1 ELSE Send(s1, AudioFallbackMsg(a.error_type))
  IN Send(s2, LlmCompleteMsg(r, Len(s1.history)))

\* the assistant entry holding the last increment instead of the response
PipelineTailLastIncrement(s, engine) ==
  LET r == s.accumulated_response
      last == IF r = <<>> THEN r ELSE <<r[Len(r)]>>
      s1 == [s EXCEPT !.history = add_message(@, "assistant", last)]
      n == Len(s1.history)
      s2 == Send(s1, LlmCompleteMsg(r, n))
      a == generate_streaming_base64_audio(r, StreamChunkSize, engine)
      s3 == IF s2.exc THEN s2
            ELSE [s2 EXCEPT !.ttsCalls = @ + 1, !.ttsEngine = engine]
      chunks == [i \in 1..Len(a.chunks) |->
                   AudioChunkMsg(a.chunks[i], i - 1, Len(a.chunks), r)]
  IN IF a.success
       THEN Send(Send(SendAll(s3, chunks), AudioCompleteMsg(Len(a.chunks), r)),
                 ConversationCompleteMsg(s.current_transcript, r, n))
       ELSE Send(s3, AudioFallbackMsg(a.error_type))

\* the pipeline without its step 4: no assistant entry is added
PipelineTailNoAssistantEntry(s, engine) ==
  LET r == s.accumulated_response
      n == Len(s.history)
      s2 == Send(s, LlmCompleteMsg(r, n))
      a == generate_streaming_base64_audio(r, StreamChunkSize, engine)
      s3 == IF s2.exc THEN s2
            ELSE [s2 EXCEPT !.ttsCalls = @ + 1, !.ttsEngine = engine]
      chunks == [i \in 1..Len(a.chunks) |->
                   AudioChunkMsg(a.chunks[i], i - 1, Len(a.chunks), r)]
  IN IF a.success
       THEN Send(Send(SendAll(s3, chunks), AudioCompleteMsg(Len(a.chunks), r)),
                 ConversationCompleteMsg(s.current_transcript, r, n))
       ELSE Send(s3, AudioFallbackMsg(a.error_type))

\* the pipeline after the stream has ended: steps 4 and 5
PipelineTail(s, engine) ==
  LET r == s.accumulated_response
      s1 == [s EXCEPT !.history = add_message(@, "assistant", r)]
      n == Len(s1.history)
      s2 == Send(s1, LlmCompleteMsg(r, n))
      a == generate_streaming_base64_audio(r, StreamChunkSize, engine)
      s3 == IF s2.exc THEN s2
            ELSE [s2 EXCEPT !.ttsCalls = @ + 1, !.ttsEngine = engine]
      chunks == [i \in 1..Len(a.chunks) |->
                   AudioChunkMsg(a.chunks[i], i - 1, Len(a.chunks), r)]
  IN IF a.success
       THEN Send(Send(SendAll(s3, chunks), AudioCompleteMsg(Len(a.chunks), r)),
                 ConversationCompleteMsg(s.current_transcript, r, n))
       ELSE Send(s3, AudioFallbackMsg(a.error_type))

\* check_turn_timeout measuring the silence from the last transcription cycle
CheckTurnTimeoutFromCycle(s) ==
  IF /\ s.is_speaking
     /\ s.last_speech_time # 0
     /\ now - s.last_transcription_time > TurnTimeout
    THEN TurnEndEntry(s)
    ELSE s

\* check_turn_timeout ending the turn as soon as the timeout is reached
CheckTurnTimeoutAtTimeout(s) ==
  IF /\ s.is_speaking
     /\ s.last_speech_time # 0
     /\ now - s.last_speech_time >= TurnTimeout
    THEN TurnEndEntry(s)
    ELSE s

\* check_turn_timeout
CheckTurnTimeout(s) ==
  IF /\ s.is_speaking
     /\ s.last_speech_time # 0
     /\ now - s.last_speech_time > TurnTimeout
    THEN TurnEndEntry(s)
    ELSE s

\* "if is_speaking: check_turn_timeout()" of a cycle without speech
SilenceTick(s) == IF s.is_speaking THEN CheckTurnTimeout(s) ELSE s

\* ----------------------------------------------- websocket_turn_detection
\* the finally block, after which the handler returns
FinallyBlock(s) ==
  LET t == TurnEndEntry([Caught(s) EXCEPT !.caller = "final"])
  IN IF t.pc = "llm" THEN t ELSE [t EXCEPT !.pc = "done", !.caller = "none"]

\* the outermost except Exception: log, then the finally block
ConnectionError(s) == FinallyBlock(s)

\* back in the read loop
Continue(s) ==
  IF s.exc THEN ConnectionError(s) ELSE [s EXCEPT !.pc = "recv", !.caller = "none"]

\* except Exception around the handling of one audio fragment
ChunkExcept(s) == Continue(Send(Caught(s), ErrorMsg("Error processing audio")))

\* the acknowledgment of a fragment
Acknowledge(s) ==
  LET t == Send(s, ChunkReceivedMsg(s.audio_data))
  IN IF t.exc THEN ChunkExcept(t) ELSE Continue(t)

\* the window cleared, the time of the last transcription left as it was
AfterTranscriptionClockKept(s) ==
  Acknowledge([s EXCEPT !.transcription_buffer = <<>>])

\* after the try block of a transcription cycle: clear the window
AfterTranscription(s) ==
  Acknowledge([s EXCEPT !.transcription_buffer = <<>>,
                        !.last_transcription_time = s.current_time])

\* The statements after a call of send_turn_end_notification, by call site:
\* "stop" the stop message, "cycle" a silence tick inside the cycle's try block,
\* "cycle_exc" the silence tick of the cycle's except block, "final" the finally
\* block.  An exception out of "cycle" reaches the cycle's except block, which
\* checks the turn timeout once more.
RECURSIVE Resume(_)
Resume(s) ==
  CASE s.caller = "stop" ->
         IF s.exc THEN ConnectionError(s)
         ELSE Continue(Send(s, StatusMsg("stopped")))
    [] s.caller = "cycle" ->
         IF s.exc
           THEN LET t == SilenceTick([Caught(s) EXCEPT !.caller = "cycle_exc"])
                IN IF t.pc = "llm" THEN t ELSE Resume(t)
           ELSE AfterTranscription(s)
    [] s.caller = "cycle_exc" ->
         IF s.exc THEN ChunkExcept(s) ELSE AfterTranscription(s)
    [] OTHER -> [s EXCEPT !.pc = "done", !.caller = "none"]

\* the handler thread running, its statements not yet applied
Running == [Local EXCEPT !.pc = "run"]

\* the message taken from ws.receive()
Received(kind) ==
  [Running EXCEPT !.out = <<>>, !.llmRaised = FALSE, !.ttsEngine = NoEngine,
                  !.handling = [kind |-> kind, pending |-> TurnPending(Local)]]

\* what the client can send
ClientMessages ==
  {[kind |-> k, len |-> 0] : k \in {"start", "stop", "ping"}}
    \cup {[kind |-> "audio", len |-> n] : n \in Fragments}

\* what a transcription call can come to: a transcript with a status, or an
\* exception
SttOutcomes ==
  {[status |-> "completed", text |-> t] : t \in NonBlankTexts \cup BlankTexts}
    \cup {[status |-> "error", text |-> ""], [status |-> "raise", text |-> ""]}

\* no call of the TTS service's splitting is under way
InitTts ==
  /\ base64_audio = ""
  /\ tts_chunk_size = StreamChunkSize
  /\ base64_chunks = <<>>
  /\ success = FALSE

InitSession ==
  /\ pc = "connect"
  /\ caller = "none"
  /\ current_transcript = ""
  /\ last_speech_time = 0
  /\ is_speaking = FALSE
  /\ audio_chunks = <<>>
  /\ transcription_buffer = <<>>
  /\ last_transcription_time = 0
  /\ current_time = 0
  /\ audio_data = 0
  /\ accumulated_response = <<>>
  /\ history = <<>>
  /\ out = <<>>
  /\ deadSends = {}
  /\ llmCalls = 0
  /\ ttsCalls = 0
  /\ ttsEngine = NoEngine
  /\ llmRaised = FALSE
  /\ lastSpeechText = ""
  /\ speechAt = 0
  /\ turnEndsSinceSpeech = 0
  /\ handling = [kind |-> "none", pending |-> FALSE]
  /\ sttInvokedAt = 0

\* the locals of websocket_audio that websocket_turn_detection does not have,
\* the messages the handler has still to send, and the early-TTS threads
InitAudio ==
  /\ current_file_path = FALSE
  /\ tts_started = FALSE
  /\ transcript = ""
  /\ outbox = <<>>
  /\ resume = "recv"
  /\ early = <<>>

InitClient ==
  /\ open = TRUE
  /\ inbox = <<>>
  /\ nSent = 0
  /\ now = TranscriptionInterval

\* the keys the user has configured: all of them, or all but one
Init ==
  /\ sttKey \in BOOLEAN
  /\ geminiKey \in BOOLEAN
  /\ murfKey \in BOOLEAN
  /\ (sttKey /\ geminiKey) \/ (sttKey /\ murfKey) \/ (geminiKey /\ murfKey)
  /\ InitClient
  /\ InitSession
  /\ InitAudio
  /\ store = <<>>
  /\ added = 0
  /\ session_id = <<>>
  /\ InitTts

\* ---- the client and the clock
\* the client sends a message; it has one message in flight at a time
ClientSend(m) ==
  /\ open
  /\ pc # "done"
  /\ nSent < MaxMsgs
  /\ inbox = <<>>
  /\ inbox' = Append(inbox, m)
  /\ nSent' = nSent + 1
  /\ UNCHANGED <<open, now, configVars, sessionVars, chatVars, ttsVars, audioVars>>

ClientClose ==
  /\ open
  /\ pc # "done"
  /\ open' = FALSE
  /\ UNCHANGED <<inbox, nSent, now, configVars, sessionVars, chatVars, ttsVars, audioVars>>

\* Time passes while the handler waits in ws.receive() or in the transcription
\* call.  The pipeline reads no clock, so time passing during the LLM stream is
\* the same as time passing once the handler is back in ws.receive(); so is time
\* passing while a message waits to be taken.
Tick ==
  /\ \/ pc = "stt"
     \/ pc = "recv" /\ inbox = <<>> /\ open
  /\ now < MaxClock
  /\ now' = now + 1
  /\ UNCHANGED <<open, inbox, nSent, configVars, sessionVars, chatVars, ttsVars, audioVars>>

\* ---- the handler
\* from the connection's acceptance to the first ws.receive()
TdConnect ==
  /\ pc = "connect"
  /\ IF ~sttKey
       THEN Commit([Send(Running, ErrorMsg("AssemblyAI API key not configured"))
                      EXCEPT !.pc = "done"])
       ELSE Commit(Continue(Send(Running, StatusMsg("established"))))
  /\ UNCHANGED <<configVars, clientVars, chatVars, ttsVars, audioVars>>

Takes(kind) == pc = "recv" /\ inbox # <<>> /\ Head(inbox).kind = kind

Taken ==
  /\ inbox' = Tail(inbox)
  /\ UNCHANGED <<open, nSent, now, configVars, chatVars, ttsVars, audioVars>>

\* start resetting the buffers and the clock of the cadence, not the turn
TdStartKeepsTurn ==
  /\ Takes("start")
  /\ Commit(Continue(Send(
       [Received("start") EXCEPT !.audio_chunks = <<>>,
                                 !.transcription_buffer = <<>>,
                                 !.last_transcription_time = now],
       StatusMsg("started"))))
  /\ Taken

\* start leaving the transcript of the pending turn in place
TdStartKeepsTranscript ==
  /\ Takes("start")
  /\ Commit(Continue(Send(
       [Received("start") EXCEPT !.last_speech_time = 0,
                                 !.is_speaking = FALSE,
                                 !.audio_chunks = <<>>,
                                 !.transcription_buffer = <<>>,
                                 !.last_transcription_time = now],
       StatusMsg("started"))))
  /\ Taken

TdStart ==
  /\ Takes("start")
  /\ Commit(Continue(Send(
       [Received("start") EXCEPT !.current_transcript = "",
                                 !.last_speech_time = 0,
                                 !.is_speaking = FALSE,
                                 !.audio_chunks = <<>>,
                                 !.transcription_buffer = <<>>,
                                 !.last_transcription_time = now],
       StatusMsg("started"))))
  /\ Taken

TdStop ==
  /\ Takes("stop")
  /\ LET t == TurnEndEntry([Received("stop") EXCEPT !.caller = "stop"])
     IN Commit(IF t.pc = "llm" THEN t ELSE Resume(t))
  /\ Taken

TdPing ==
  /\ Takes("ping")
  /\ Commit(Continue(Send(Received("ping"), PongMsg)))
  /\ Taken

\* an audio fragment: buffered, then a transcription cycle when one is due
TdAudio ==
  /\ Takes("audio")
  /\ LET d == Head(inbox).len
         s == [Received("audio") EXCEPT
                 !.audio_data = d,
                 !.audio_chunks = Append(@, d),
                 !.transcription_buffer = Append(@, d),
                 !.current_time = now]
     IN IF /\ s.transcription_buffer # <<>>
           /\ s.current_time - s.last_transcription_time >= TranscriptionInterval
          THEN Commit([s EXCEPT !.pc = "stt", !.sttInvokedAt = now])
          ELSE Commit(Acknowledge(s))
  /\ Taken

\* the speech branch appending the text to the transcript
AfterSttAppending(res) ==
  IF res.status = "completed" /\ ~Blank(res.text)
    THEN Resume(Send(
           [Running EXCEPT !.caller = "cycle",
                           !.current_transcript = @ \o res.text,
                           !.last_speech_time = now,
                           !.is_speaking = TRUE,
                           !.lastSpeechText = res.text,
                           !.speechAt = now,
                           !.turnEndsSinceSpeech = 0],
           TranscriptionUpdateMsg(res.text)))
    ELSE LET c == IF res.status = "raise" THEN "cycle_exc" ELSE "cycle"
             t == SilenceTick([Running EXCEPT !.caller = c])
         IN IF t.pc = "llm" THEN t ELSE Resume(t)

\* a failed transcription ending the handling of the fragment at once
AfterSttFailureUnacknowledged(res) ==
  IF res.status = "completed" /\ ~Blank(res.text)
    THEN Resume(Send(
           [Running EXCEPT !.caller = "cycle",
                           !.current_transcript = res.text,
                           !.last_speech_time = now,
                           !.is_speaking = TRUE,
                           !.lastSpeechText = res.text,
                           !.speechAt = now,
                           !.turnEndsSinceSpeech = 0],
           TranscriptionUpdateMsg(res.text)))
    ELSE IF res.status = "completed"
      THEN LET t == SilenceTick([Running EXCEPT !.caller = "cycle"])
           IN IF t.pc = "llm" THEN t ELSE Resume(t)
      ELSE Continue(Running)

\* the handler from the return of transcriber.transcribe, with res, to its next
\* wait: the speech branch, or a tick of silence
AfterStt(res) ==
  IF res.status = "completed" /\ ~Blank(res.text)
    THEN Resume(Send(
           [Running EXCEPT !.caller = "cycle",
                           !.current_transcript = res.text,
                           !.last_speech_time = now,
                           !.is_speaking = TRUE,
                           !.lastSpeechText = res.text,
                           !.speechAt = now,
                           !.turnEndsSinceSpeech = 0],
           TranscriptionUpdateMsg(res.text)))
    ELSE LET c == IF res.status = "raise" THEN "cycle_exc" ELSE "cycle"
             t == SilenceTick([Running EXCEPT !.caller = c])
         IN IF t.pc = "llm" THEN t ELSE Resume(t)

\* transcriber.transcribe returns, or raises
TdSttReturn(res) ==
  /\ pc = "stt"
  /\ Commit(AfterStt(res))
  /\ UNCHANGED <<configVars, clientVars, chatVars, ttsVars, audioVars>>

\* the LLM stream yields a text increment
TdLlmYield(c) ==
  /\ pc = "llm"
  /\ Len(accumulated_response) < MaxChunks
  /\ LET t == StreamChunk(Running, c)
     IN Commit(IF t.exc THEN Resume(ClearTurn(PipelineExcept(t)))
               ELSE [t EXCEPT !.pc = "llm"])
  /\ UNCHANGED <<configVars, clientVars, chatVars, ttsVars, audioVars>>

\* The LLM stream ends: normally, or the engine raises, which
\* generate_streaming_response turns into one more increment, the error text.
\* The rest of the pipeline follows.
TdLlmFinish(raised, engine) ==
  /\ pc = "llm"
  /\ LET s == IF raised
                THEN StreamChunk([Running EXCEPT !.llmRaised = TRUE], LlmErrorText)
                ELSE Running
         t == IF s.exc THEN s ELSE PipelineTail(s, engine)
     IN Commit(Resume(ClearTurn(PipelineExcept(t))))
  /\ UNCHANGED <<configVars, clientVars, chatVars, ttsVars, audioVars>>

\* ws.receive() ends the loop: the connection is closed and nothing is buffered
TdTeardown ==
  /\ pc = "recv"
  /\ inbox = <<>>
  /\ ~open
  /\ Commit(FinallyBlock(Running))
  /\ UNCHANGED <<configVars, clientVars, chatVars, ttsVars, audioVars>>

Next ==
  \/ \E m \in ClientMessages : ClientSend(m)
  \/ ClientClose
  \/ Tick
  \/ TdConnect
  \/ TdStart
  \/ TdStop
  \/ TdPing
  \/ TdAudio
  \/ \E res \in SttOutcomes : TdSttReturn(res)
  \/ \E c \in LlmIncrements : TdLlmYield(c)
  \/ \E raised \in BOOLEAN, engine \in TtsEngineOutcomes : TdLlmFinish(raised, engine)
  \/ TdTeardown

Spec == Init /\ [][Next]_vars

\* the handler thread: it runs whenever it has a step to take
Handler ==
  \/ TdConnect
  \/ TdStart
  \/ TdStop
  \/ TdPing
  \/ TdAudio
  \/ \E res \in SttOutcomes : TdSttReturn(res)
  \/ \E c \in LlmIncrements : TdLlmYield(c)
  \/ \E raised \in BOOLEAN, engine \in TtsEngineOutcomes : TdLlmFinish(raised, engine)
  \/ TdTeardown

FairSpec == Init /\ [][Next]_vars /\ WF_vars(Handler)

\* ----------------------------------------------------------- /ws/audio
\* websocket_audio.  The handler thread's sends are taken one at a time and in
\* two steps, the call of ws.send and its return, so that a send of the
\* early-TTS thread can fall inside one: outbox holds the messages the handler
\* sends before its next blocking call, resume the place it goes on from.  A
\* send on a closed connection raises; so does every later one, up to the
\* handler's outermost except, and the handler returns.
AudioIncrements ==
  {"That is a question I can answer.", "Yes. That is a question I can answer."}
EmptyPromptText == "[Empty prompt provided]"

\* what a transcription call of websocket_audio can come to
AudioSttOutcomes ==
  {[status |-> "completed", text |-> "hi"], [status |-> "completed", text |-> ""],
   [status |-> "error", text |-> ""], [status |-> "raise", text |-> ""]}

ConnectionEstablishedMsg == [type |-> "connection_established"]
FinalTranscriptionMsg(t) == [type |-> "final_transcription", transcript |-> t]
TranscriptionMsg(t) == [type |-> "transcription", transcript |-> t]
AudioChunkReceivedMsg(n, total) ==
  [type |-> "chunk_received", chunk_size |-> n, total_size |-> total]
EarlyAudioChunkMsg(t) == [type |-> "early_audio_chunk", text_part |-> t]

\* a response held as its increments, as the one string it is
RECURSIVE Join(_)
Join(r) == IF r = <<>> THEN "" ELSE Head(r) \o Join(Tail(r))

RECURSIVE LStrip(_)
LStrip(t) ==
  IF Len(t) > 0 /\ SubSeq(t, 1, 1) = " " THEN LStrip(SubSeq(t, 2, Len(t))) ELSE t

RECURSIVE RStrip(_)
RStrip(t) ==
  IF Len(t) > 0 /\ SubSeq(t, Len(t), Len(t)) = " "
    THEN RStrip(SubSeq(t, 1, Len(t) - 1))
    ELSE t

\* text.strip()
Strip(t) == LStrip(RStrip(t))

\* accumulated_response.split('.')[0] + '.'
FirstSentence(t) ==
  LET D == {i \in 1..Len(t) : SubSeq(t, i, i) = "."}
      d == IF D = {} THEN Len(t) + 1 ELSE CHOOSE i \in D : \A j \in D : i <= j
  IN SubSeq(t, 1, d - 1) \o "."

RECURSIVE Sum(_)
Sum(q) == IF q = <<>> THEN 0 ELSE Head(q) + Sum(Tail(q))

FastFailure(e) == [success |-> FALSE, error_type |-> e]

\* TTSService.generate_fast_base64_audio
generate_fast_base64_audio(text, engine) ==
  IF ~murfKey THEN FastFailure("api_key_missing")
  ELSE IF Strip(text) = "" THEN FastFailure("tts_error")
  ELSE IF ~CurrentApiKeyBound THEN FastFailure("tts_error")
  ELSE IF engine.status = "timeout" THEN FastFailure("timeout_error")
  ELSE IF engine.status # "ok" THEN FastFailure("tts_error")
  ELSE [success |-> TRUE, error_type |-> "none"]

\* the variables of the turn detector, which websocket_audio does not have
detectorVars == <<caller, current_transcript, last_speech_time, is_speaking,
                  deadSends, llmCalls, ttsCalls, ttsEngine, lastSpeechText,
                  speechAt, turnEndsSinceSpeech, handling, sttInvokedAt>>
recordingVars == <<current_file_path, audio_chunks, transcription_buffer,
                   last_transcription_time, current_time, audio_data>>
pipelineVars == <<transcript, accumulated_response, history, llmRaised,
                  tts_started>>

\* the handler sends ms in order, then goes on from next
Emit(ms, next) ==
  /\ outbox' = ms
  /\ resume' = next
  /\ pc' = IF ms = <<>> THEN next ELSE "send"

\* the message taken from ws.receive(); handling records its kind
AudioTaken ==
  /\ inbox' = Tail(inbox)
  /\ out' = <<>>
  /\ handling' = [kind |-> Head(inbox).kind, pending |-> FALSE]
  /\ UNCHANGED <<open, nSent, now, configVars, chatVars, ttsVars, caller,
                 current_transcript, last_speech_time, is_speaking, deadSends,
                 llmCalls, ttsCalls, ttsEngine, lastSpeechText, speechAt,
                 turnEndsSinceSpeech, sttInvokedAt, early>>

InitWA ==
  /\ sttKey \in BOOLEAN
  /\ geminiKey \in BOOLEAN
  /\ murfKey \in BOOLEAN
  /\ (sttKey /\ geminiKey) \/ (sttKey /\ murfKey) \/ (geminiKey /\ murfKey)
  /\ open = TRUE
  /\ inbox = <<>>
  /\ nSent = 0
  /\ now = AudioTranscriptionInterval
  /\ InitSession
  /\ InitAudio
  /\ store = <<>>
  /\ added = 0
  /\ session_id = <<>>
  /\ InitTts

\* from the connection's acceptance to the first ws.receive()
WaConnect ==
  /\ pc = "connect"
  /\ Emit(<<ConnectionEstablishedMsg>>, "recv")
  /\ UNCHANGED <<out, early, recordingVars, pipelineVars, detectorVars,
                 configVars, clientVars, chatVars, ttsVars>>

\* ws.send is called with the next message
WaSendCall ==
  /\ pc = "send"
  /\ pc' = "sending"
  /\ UNCHANGED <<out, outbox, resume, early, recordingVars, pipelineVars,
                 detectorVars, configVars, clientVars, chatVars, ttsVars>>

\* ws.send returns, or raises on a closed connection
WaSendReturn ==
  /\ pc = "sending"
  /\ IF open
       THEN /\ out' = Append(out, Head(outbox))
            /\ outbox' = Tail(outbox)
            /\ pc' = IF Tail(outbox) = <<>> THEN resume ELSE "send"
       ELSE /\ out' = out
            /\ outbox' = <<>>
            /\ pc' = "done"
  /\ UNCHANGED <<resume, early, recordingVars, pipelineVars, detectorVars,
                 configVars, clientVars, chatVars, ttsVars>>

\* start emptying the recording but not the transcription window
WaStartKeepsWindow ==
  /\ Takes("start")
  /\ current_file_path' = TRUE
  /\ audio_chunks' = <<>>
  /\ last_transcription_time' = now
  /\ Emit(<<StatusMsg("Recording started")>>, "recv")
  /\ UNCHANGED <<transcription_buffer, current_time, audio_data, pipelineVars>>
  /\ AudioTaken

WaStart ==
  /\ Takes("start")
  /\ current_file_path' = TRUE
  /\ audio_chunks' = <<>>
  /\ transcription_buffer' = <<>>
  /\ last_transcription_time' = now
  /\ Emit(<<StatusMsg("Recording started")>>, "recv")
  /\ UNCHANGED <<current_time, audio_data, pipelineVars>>
  /\ AudioTaken

\* stop testing the buffered audio only, not whether a recording was started
WaStopPathUnchecked ==
  /\ Takes("stop")
  /\ IF audio_chunks # <<>>
       THEN IF sttKey
              THEN pc' = "final_stt" /\ UNCHANGED <<outbox, resume>>
              ELSE Emit(<<StatusMsg("Recording saved")>>, "recv")
       ELSE Emit(<<ErrorMsg("No audio data to save")>>, "recv")
  /\ UNCHANGED <<recordingVars, pipelineVars>>
  /\ AudioTaken

\* stop: the recording is saved and, with a transcriber, transcribed as a whole
WaStop ==
  /\ Takes("stop")
  /\ IF current_file_path /\ audio_chunks # <<>>
       THEN IF sttKey
              THEN pc' = "final_stt" /\ UNCHANGED <<outbox, resume>>
              ELSE Emit(<<StatusMsg("Recording saved")>>, "recv")
       ELSE Emit(<<ErrorMsg("No audio data to save")>>, "recv")
  /\ UNCHANGED <<recordingVars, pipelineVars>>
  /\ AudioTaken

WaPing ==
  /\ Takes("ping")
  /\ Emit(<<PongMsg>>, "recv")
  /\ UNCHANGED <<recordingVars, pipelineVars>>
  /\ AudioTaken

\* the acknowledgment's total_size computed before the fragment is appended
WaAudioTotalBeforeAppend ==
  /\ Takes("audio")
  /\ LET d == Head(inbox).len
     IN /\ audio_data' = d
        /\ audio_chunks' = Append(audio_chunks, d)
        /\ transcription_buffer' = Append(transcription_buffer, d)
        /\ current_time' = now
        /\ IF /\ sttKey
              /\ Append(transcription_buffer, d) # <<>>
              /\ now - last_transcription_time >= AudioTranscriptionInterval
             THEN pc' = "stt" /\ UNCHANGED <<outbox, resume>>
             ELSE Emit(<<AudioChunkReceivedMsg(d, Sum(audio_chunks))>>, "recv")
  /\ UNCHANGED <<current_file_path, last_transcription_time, pipelineVars>>
  /\ AudioTaken

\* a binary frame: buffered, then a real-time transcription when one is due
WaAudio ==
  /\ Takes("audio")
  /\ LET d == Head(inbox).len
     IN /\ audio_data' = d
        /\ audio_chunks' = Append(audio_chunks, d)
        /\ transcription_buffer' = Append(transcription_buffer, d)
        /\ current_time' = now
        /\ IF /\ sttKey
              /\ Append(transcription_buffer, d) # <<>>
              /\ now - last_transcription_time >= AudioTranscriptionInterval
             THEN pc' = "stt" /\ UNCHANGED <<outbox, resume>>
             ELSE Emit(<<AudioChunkReceivedMsg(d, Sum(audio_chunks) + d)>>, "recv")
  /\ UNCHANGED <<current_file_path, last_transcription_time, pipelineVars>>
  /\ AudioTaken

\* the window cleared and the cadence restarted after a call that raised, too
AfterAudioSttAlwaysClearing(res) ==
  LET ack == AudioChunkReceivedMsg(audio_data, Sum(audio_chunks))
  IN [outbox |-> IF res.status = "completed"
                   THEN <<TranscriptionMsg(res.text), ack>>
                   ELSE <<ack>>,
      transcription_buffer |-> <<>>,
      last_transcription_time |-> current_time]

\* websocket_audio from the return of transcriber.transcribe, with res, to the
\* acknowledgment: the messages to send, and the window and the time of the
\* last transcription, which the except of the cycle leaves as they were
AfterAudioStt(res) ==
  LET ack == AudioChunkReceivedMsg(audio_data, Sum(audio_chunks))
  IN IF res.status = "raise"
       THEN [outbox |-> <<ack>>,
             transcription_buffer |-> transcription_buffer,
             last_transcription_time |-> last_transcription_time]
       ELSE [outbox |-> IF res.status = "completed"
                          THEN <<TranscriptionMsg(res.text), ack>>
                          ELSE <<ack>>,
             transcription_buffer |-> <<>>,
             last_transcription_time |-> current_time]

\* the real-time transcription returns, or raises; the acknowledgment follows
WaSttReturn(res) ==
  /\ pc = "stt"
  /\ LET a == AfterAudioStt(res)
     IN /\ Emit(a.outbox, "recv")
        /\ transcription_buffer' = a.transcription_buffer
        /\ last_transcription_time' = a.last_transcription_time
  /\ UNCHANGED <<current_file_path, audio_chunks, current_time, audio_data,
                 out, early, pipelineVars, detectorVars, configVars, clientVars,
                 chatVars, ttsVars>>

\* the final transcription returns, or raises
WaFinalSttReturn(res) ==
  /\ pc = "final_stt"
  /\ IF res.status = "completed"
       THEN /\ transcript' = res.text
            /\ Emit(<<FinalTranscriptionMsg(res.text)>>, "pipeline")
       ELSE /\ transcript' = transcript
            /\ Emit(<<StatusMsg("Recording saved")>>, "recv")
  /\ UNCHANGED <<accumulated_response, history, llmRaised, tts_started, out,
                 early, recordingVars, detectorVars, configVars, clientVars,
                 chatVars, ttsVars>>

\* the AI pipeline up to the start of the LLM stream
WaPipelineStart ==
  /\ pc = "pipeline"
  /\ IF geminiKey
       THEN /\ history' = add_message(history, "user", transcript)
            /\ accumulated_response' = <<>>
            /\ tts_started' = FALSE
            /\ llmRaised' = FALSE
            /\ pc' = "llm"
            /\ UNCHANGED <<outbox, resume>>
       ELSE /\ Emit(<<PipelineErrorMsg("Gemini API key not configured"),
                      StatusMsg("Recording saved")>>, "recv")
            /\ UNCHANGED <<history, accumulated_response, tts_started, llmRaised>>
  /\ UNCHANGED <<transcript, out, early, recordingVars, detectorVars,
                 configVars, clientVars, chatVars, ttsVars>>

\* what the LLM stream can yield next: for a blank prompt the one notice; else
\* increments of the answer, or the error text that ends a stream that raised
Yieldable(c) ==
  /\ ~llmRaised
  /\ Len(accumulated_response) < MaxIncrements
  /\ IF Strip(transcript) = ""
       THEN c = EmptyPromptText /\ accumulated_response = <<>>
       ELSE c # EmptyPromptText

\* one pass of the loop over generate_streaming_response, up to the send
WaLlmYield(c) ==
  /\ pc = "llm"
  /\ Yieldable(c)
  /\ accumulated_response' = Append(accumulated_response, c)
  /\ llmRaised' = (c = LlmErrorText)
  /\ Emit(<<LlmChunkMsg(c)>>, "chunk_sent")
  /\ UNCHANGED <<transcript, history, tts_started, out, early, recordingVars,
                 detectorVars, configVars, clientVars, chatVars, ttsVars>>

\* the early-TTS thread started at the first increment, whatever its length
WaStartEarlyTtsAtOnce ==
  /\ pc = "chunk_sent"
  /\ pc' = "llm"
  /\ IF ~tts_started
       THEN /\ early' = Append(early, [at |-> "run", first_sentence |-> ""])
            /\ tts_started' = TRUE
       ELSE UNCHANGED <<early, tts_started>>
  /\ UNCHANGED <<transcript, accumulated_response, history, llmRaised, out,
                 outbox, resume, recordingVars, detectorVars, configVars,
                 clientVars, chatVars, ttsVars>>

\* the rest of the pass: the early-TTS thread is started once the response has
\* tts_threshold characters
WaStartEarlyTts ==
  /\ pc = "chunk_sent"
  /\ pc' = "llm"
  /\ IF ~tts_started /\ Len(Strip(Join(accumulated_response))) >= EarlyTtsThreshold
       THEN /\ early' = Append(early, [at |-> "run", first_sentence |-> ""])
            /\ tts_started' = TRUE
       ELSE UNCHANGED <<early, tts_started>>
  /\ UNCHANGED <<transcript, accumulated_response, history, llmRaised, out,
                 outbox, resume, recordingVars, detectorVars, configVars,
                 clientVars, chatVars, ttsVars>>

\* a thread that has returned; its locals are gone
Returned == [at |-> "done", first_sentence |-> ""]

\* generate_early_tts, one step of thread i: it reads accumulated_response as
\* it is when it runs, synthesizes the first sentence, and on success sends it
\* with ws.send, the call and the return being two steps
EarlyTts(i, engine) ==
  /\ i \in DOMAIN early
  /\ early[i].at # "done"
  /\ LET th == early[i]
         fs == FirstSentence(Join(accumulated_response))
         a == generate_fast_base64_audio(th.first_sentence, engine)
     IN CASE th.at = "run" ->
               /\ early' = [early EXCEPT ![i] =
                    IF Len(fs) > MinFirstSentence
                      THEN [at |-> "tts", first_sentence |-> fs]
                      ELSE Returned]
               /\ out' = out
          [] th.at = "tts" ->
               /\ early' = [early EXCEPT ![i] =
                    IF a.success THEN [th EXCEPT !.at = "send"] ELSE Returned]
               /\ out' = out
          [] th.at = "send" ->
               /\ early' = [early EXCEPT ![i] = [th EXCEPT !.at = "sending"]]
               /\ out' = out
          [] OTHER ->
               /\ early' = [early EXCEPT ![i] = Returned]
               /\ out' = IF open
                           THEN Append(out, EarlyAudioChunkMsg(th.first_sentence))
                           ELSE out
  /\ UNCHANGED <<pc, outbox, resume, recordingVars, pipelineVars, detectorVars,
                 configVars, clientVars, chatVars, ttsVars>>

\* the stream has ended: steps 4 and 5 of the pipeline, then the stop's reply
WaLlmFinish(engine) ==
  /\ pc = "llm"
  /\ Strip(transcript) = "" => accumulated_response # <<>>
  /\ LET r == accumulated_response
         h == add_message(history, "assistant", r)
         a == generate_streaming_base64_audio(r, AudioChunkSize, engine)
         chunks == [i \in 1..Len(a.chunks) |->
                      AudioChunkMsg(a.chunks[i], i - 1, Len(a.chunks), r)]
         audio == IF a.success
                    THEN chunks \o <<AudioCompleteMsg(Len(a.chunks), r),
                                     ConversationCompleteMsg(transcript, r, Len(h))>>
                    ELSE <<AudioFallbackMsg(a.error_type)>>
     IN /\ history' = h
        /\ Emit(<<LlmCompleteMsg(r, Len(h))>> \o audio
                  \o <<StatusMsg("Recording saved")>>, "recv")
  /\ UNCHANGED <<transcript, accumulated_response, llmRaised, tts_started, out,
                 early, recordingVars, detectorVars, configVars, clientVars,
                 chatVars, ttsVars>>

\* ws.receive() ends the loop: the connection is closed and nothing is buffered
WaTeardown ==
  /\ pc = "recv"
  /\ inbox = <<>>
  /\ ~open
  /\ pc' = "done"
  /\ UNCHANGED <<out, outbox, resume, early, recordingVars, pipelineVars,
                 detectorVars, configVars, clientVars, chatVars, ttsVars>>

\* The client sends its next message once the handler is back in ws.receive():
\* the handler reads the connection nowhere else, so a message sent earlier is
\* taken at the same point.
WaClientSend(m) == pc = "recv" /\ ClientSend(m)

\* Time passes.  The handler reads the clock only when it takes a message, so
\* time passing while it is busy is time passing once it waits again; and it
\* reads it only to tell whether transcription_interval has passed since
\* last_transcription_time, so time passing after that changes nothing it sees.
WaTick ==
  /\ pc = "recv"
  /\ now - last_transcription_time < AudioTranscriptionInterval
  /\ Tick

NextWA ==
  \/ \E m \in ClientMessages : WaClientSend(m)
  \/ ClientClose
  \/ WaTick
  \/ WaConnect
  \/ WaSendCall
  \/ WaSendReturn
  \/ WaStart
  \/ WaStop
  \/ WaPing
  \/ WaAudio
  \/ \E res \in AudioSttOutcomes : WaSttReturn(res)
  \/ \E res \in AudioSttOutcomes : WaFinalSttReturn(res)
  \/ WaPipelineStart
  \/ \E c \in AudioIncrements \cup {EmptyPromptText, LlmErrorText} : WaLlmYield(c)
  \/ WaStartEarlyTts
  \/ \E i \in DOMAIN early, engine \in TtsEngineOutcomes : EarlyTts(i, engine)
  \/ \E engine \in TtsEngineOutcomes : WaLlmFinish(engine)
  \/ WaTeardown

SpecWA == InitWA /\ [][NextWA]_vars

\* ------------------------------------------------------------------ claims
\* out holds the messages delivered since the handler last took a message from
\* ws.receive(); lastSpeechText and speechAt are the text and the time of the
\* last completed non-blank transcription; turnEndsSinceSpeech counts the
\* turn_end messages delivered since then.
Count(seq, type) == Cardinality({i \in DOMAIN seq : seq[i].type = type})

\* C1: as long as no transcription cycle has returned a completed non-blank
\* text, no turn_end has been sent and the response pipeline has not run (no
\* history entry, no LLM call, no TTS call), whatever the client has sent.
NoSpeechNoTurn ==
  lastSpeechText = "" =>
    /\ turnEndsSinceSpeech = 0
    /\ Count(out, "turn_end") = 0
    /\ history = <<>>
    /\ llmCalls = 0
    /\ ttsCalls = 0

\* a silent cycle has run and a stop has been answered, with no speech so far
NoSpeechWitness ==
  /\ lastSpeechText = ""
  /\ audio_chunks # <<>>
  /\ transcription_buffer = <<>>
  /\ handling.kind = "stop"
  /\ out = <<StatusMsg("stopped")>>

\* C2 as claimed: once a non-blank transcription is followed by a gap longer
\* than silence_timeout, exactly one turn_end is eventually sent.
GapLeadsToTurnEnd ==
  (lastSpeechText # "" /\ now - speechAt > TurnTimeout) ~> (turnEndsSinceSpeech = 1)

\* the transcription call returns without a transcription_update being sent
SilenceReturn ==
  /\ pc = "stt"
  /\ pc' # "stt"
  /\ Count(out', "transcription_update") = Count(out, "transcription_update")

\* C2 as amended: a silence tick (a cycle whose transcription is blank or failed)
\* that is processed on an open connection while the detector is SPEAKING and
\* more than silence_timeout after the last non-blank transcription sends exactly
\* one turn_end, carrying the text of that transcription.
SilenceTickEndsTurn ==
  [][(SilenceReturn /\ open /\ is_speaking /\ now - last_speech_time > TurnTimeout)
       => /\ Count(out', "turn_end") = Count(out, "turn_end") + 1
          /\ \E i \in (Len(out) + 1)..Len(out') : out'[i] = TurnEndMsg(lastSpeechText)
          /\ turnEndsSinceSpeech' = 1]_vars

\* a silence tick has ended a turn and the handler is back in the read loop
SilenceTickWitness ==
  /\ handling.kind = "audio"
  /\ pc = "recv"
  /\ Count(out, "turn_end") = 1
  /\ now - speechAt > TurnTimeout

\* C3: between two turn_end messages of a connection there is a non-blank
\* transcription: at most one turn_end is sent per speech interval.
OneTurnEndPerSpeech == turnEndsSinceSpeech <= 1

\* a turn has ended and a later stop found nothing to end
SecondStopWitness ==
  /\ turnEndsSinceSpeech = 1
  /\ handling.kind = "stop"
  /\ ~handling.pending
  /\ pc = "recv"

\* the reply to the stop being handled has been sent
StopAnswered ==
  /\ handling.kind = "stop"
  /\ \E i \in DOMAIN out : out[i] = StatusMsg("stopped")

\* C4: once a stop has been answered, exactly one turn_end was sent for it, first
\* and before the status reply, when a turn was pending, and none when the
\* detector was WAITING (the status reply is then the only message); nothing
\* follows the reply, and the teardown attempts no further turn_end.
StopEndsTurnOnce ==
  StopAnswered =>
    /\ Count(out, "turn_end") = (IF handling.pending THEN 1 ELSE 0)
    /\ handling.pending => out[1] = TurnEndMsg(lastSpeechText)
    /\ ~handling.pending => out = <<StatusMsg("stopped")>>
    /\ out[Len(out)] = StatusMsg("stopped")
    /\ "turn_end" \notin deadSends

\* a stop ended a pending turn, was answered, and the connection was torn down
StopThenTeardownWitness ==
  /\ StopAnswered
  /\ handling.pending
  /\ pc = "done"

\* the audio messages of the turn: chunks 0..N-1 in order, each announcing N,
\* then one terminal chunk with an empty payload
AudioChunksWellFormed ==
  LET A == SelectSeq(out, LAMBDA m : m.type = "murf_base64_audio_chunk")
  IN /\ Len(A) >= 1
     /\ A[Len(A)].is_complete
     /\ A[Len(A)].chunk = <<>>
     /\ \A i \in 1..(Len(A) - 1) :
          /\ ~A[i].is_complete
          /\ A[i].chunk_index = i - 1
          /\ A[i].total_chunks = Len(A) - 1

\* the response of the turn whose pipeline has reached the TTS stage
TurnResponse == history[Len(history)].content

LlmFailureReported ==
  (llmRaised /\ pc = "recv" /\ open) =>
    /\ Count(out, "pipeline_error") = 1
    /\ ttsEngine = NoEngine
    /\ Count(out, "murf_base64_audio_chunk") = 0
    /\ Count(out, "audio_fallback") = 0
    /\ Count(out, "conversation_complete") = 0

\* the increments sent before position i, in order
Streamed(i) ==
  LET C == SelectSeq(SubSeq(out, 1, i - 1),
                     LAMBDA m : m.type = "llm_stream_chunk" /\ ~m.is_complete)
  IN [k \in 1..Len(C) |-> C[k].chunk]

\* the TTS stage of the turn was reached and the synthesis failed
TtsFailed ==
  /\ ttsEngine # NoEngine
  /\ ~generate_streaming_base64_audio(TurnResponse, StreamChunkSize, ttsEngine).success

\* C8: when the synthesis of the full response fails after the LLM stream
\* completed, the terminal llm_stream_chunk carrying the whole response has been
\* sent, the audio_fallback follows it directly and is the only one, and no
\* audio chunk is sent.
FallbackFollowsText ==
  (TtsFailed /\ ~llmRaised) =>
    /\ \E i \in 1..(Len(out) - 1) :
         /\ out[i].type = "llm_stream_chunk"
         /\ out[i].is_complete
         /\ out[i].full_response = Streamed(i)
         /\ out[i].full_response = TurnResponse
         /\ out[i + 1].type = "audio_fallback"
    /\ Count(out, "audio_fallback") = 1
    /\ Count(out, "murf_base64_audio_chunk") = 0

\* a streamed response whose synthesis failed with the key configured
FallbackWitness ==
  /\ TtsFailed
  /\ ~llmRaised
  /\ murfKey
  /\ TurnResponse # <<>>
  /\ Count(out, "audio_fallback") = 1

\* C9: an audio fragment that arrives while an STT or LLM call of the
\* connection is outstanding can be taken by the read loop without waiting for
\* the call.
ReadLoopNeverBlocked ==
  (pc \in {"stt", "llm"} /\ inbox # <<>> /\ Head(inbox).kind = "audio")
    => ENABLED TdAudio

\* ----------------------------------------------- ChatManager on its own
\* Sessions of the store; an entry's content is its serial number within its
\* session, and the roles alternate as the pipelines append them.
Sessions == {"s1", "s2"}

RoleOf(n) == IF n % 2 = 1 THEN "user" ELSE "assistant"

InitChat ==
  /\ sttKey = TRUE
  /\ geminiKey = TRUE
  /\ murfKey = TRUE
  /\ InitClient
  /\ InitSession
  /\ InitAudio
  /\ store = [sid \in Sessions |-> <<>>]
  /\ added = [sid \in Sessions |-> 0]
  /\ session_id = <<>>
  /\ InitTts

ChatAdd(sid) ==
  /\ added[sid] < MaxAdds
  /\ added' = [added EXCEPT ![sid] = @ + 1]
  /\ store' = [store EXCEPT ![sid] =
                 add_message(@, RoleOf(added[sid] + 1), added[sid] + 1)]
  /\ UNCHANGED <<session_id, configVars, clientVars, sessionVars, audioVars,
                 ttsVars>>

NextChat == \E sid \in Sessions : ChatAdd(sid)

SpecChat == InitChat /\ [][NextChat]_vars

\* C5: a session's history holds at most MAX_CHAT_HISTORY entries, and they are
\* the most recently added ones in the order they were added.
HistoryKeepsMostRecent ==
  \A sid \in Sessions :
    LET n == Len(store[sid])
    IN /\ n = Min(added[sid], MAX_CHAT_HISTORY)
       /\ \A i \in 1..n :
            store[sid][i] = [role |-> RoleOf(added[sid] - n + i),
                             content |-> added[sid] - n + i]

\* entries have been evicted from one session while the other is below the bound
EvictionWitness ==
  /\ added["s1"] > MAX_CHAT_HISTORY + 1
  /\ added["s2"] \in 1..MAX_CHAT_HISTORY

\* the calls of ws.send on the connection that have not returned
SendsInProgress ==
  (IF pc = "sending" THEN 1 ELSE 0)
    + Cardinality({i \in DOMAIN early : early[i].at = "sending"})

TurnMessageTypes ==
  {"turn_end", "llm_stream_chunk", "murf_base64_audio_chunk", "audio_fallback",
   "conversation_complete", "pipeline_error"}

\* C11: once the connection has closed the handler calls ws.send for no message
\* of a turn: neither the teardown nor a pipeline whose stream or synthesis
\* ends after the close attempts a turn_end or a pipeline message on it.
NoTurnMessageAfterClose == deadSends \cap TurnMessageTypes = {}

\* C12: when the handler has ended, a turn that was pending at the close has
\* been flushed like a turn ended by stop: no turn is left pending, and no
\* turn_end was lost on the closed connection.
TeardownFlushesPendingTurn ==
  pc = "done" => ~TurnPending(Local) /\ "turn_end" \notin deadSends

\* C13: when the handler has ended, the conversation-history store holds no
\* entry of the session.
HistoryReleasedAtClose == pc = "done" => history = <<>>

\* ------------------------------------------------ session ids of connections
\* Two connections opened on the websocket endpoints, the clock counted in
\* milliseconds; each appends the entries of its turns to the history stored
\* under its session id.  An entry's content is the connection that added it
\* and the entry's serial number.
Connections == {"c1", "c2"}

Endpoints == {"ws_session", "turn_detection"}

MillisPerSecond == 1000

\* f"{prefix}_{int(time.time())}_{int(time.time() * 1000) % 1000}", the clock
\* read at t1 and again at t2; nothing of the connection enters the id
SessionId(prefix, t1, t2) ==
  prefix \o "_" \o ToString(t1 \div MillisPerSecond)
         \o "_" \o ToString(t2 % MillisPerSecond)

\* chat_history_store.get(session_id, [])
get_conversation_history(sid) ==
  IF sid \in DOMAIN store THEN store[sid] ELSE <<>>

InitIds ==
  /\ sttKey = TRUE
  /\ geminiKey = TRUE
  /\ murfKey = TRUE
  /\ open = TRUE
  /\ inbox = <<>>
  /\ nSent = 0
  /\ now = 0
  /\ InitSession
  /\ InitAudio
  /\ store = <<>>
  /\ added = [c \in Connections |-> 0]
  /\ session_id = [c \in Connections |-> ""]
  /\ InitTts

IdFrame ==
  UNCHANGED <<configVars, open, inbox, nSent, sessionVars, audioVars, ttsVars>>

\* a millisecond passes
IdTick ==
  /\ now < MaxMillis
  /\ now' = now + 1
  /\ UNCHANGED <<chatVars, ttsVars>>
  /\ IdFrame

\* a connection is accepted on an endpoint; the second reading of the clock is
\* the first one or a millisecond later
IdOpen(c, prefix) ==
  /\ session_id[c] = ""
  /\ \E t2 \in {now, Min(now + 1, MaxMillis)} :
       /\ session_id' = [session_id EXCEPT ![c] = SessionId(prefix, now, t2)]
       /\ now' = t2
  /\ UNCHANGED <<store, added>>
  /\ IdFrame

\* a turn of a connection: the user entry and the assistant entry are added
\* under the connection's session id
IdTurn(c) ==
  /\ session_id[c] # ""
  /\ added[c] < 2 * MaxTurns
  /\ LET sid == session_id[c]
         h1 == add_message(get_conversation_history(sid), "user",
                           <<c, added[c] + 1>>)
         h2 == add_message(h1, "assistant", <<c, added[c] + 2>>)
     IN store' = [s \in DOMAIN store \cup {sid} |->
                    IF s = sid THEN h2 ELSE store[s]]
  /\ added' = [added EXCEPT ![c] = @ + 2]
  /\ UNCHANGED <<now, session_id>>
  /\ IdFrame

NextIds ==
  \/ IdTick
  \/ \E c \in Connections, prefix \in Endpoints : IdOpen(c, prefix)
  \/ \E c \in Connections : IdTurn(c)

SpecIds == InitIds /\ [][NextIds]_vars

\* C14: two distinct connections have distinct session ids, also when both
\* are opened within one tick of the clock, and the history stored under a
\* connection's id holds only entries that connection added.
SessionIdsDistinct ==
  /\ \A c1, c2 \in Connections :
       (c1 # c2 /\ session_id[c1] # "") => session_id[c1] # session_id[c2]
  /\ \A c \in Connections :
       LET h == get_conversation_history(session_id[c])
       IN \A i \in DOMAIN h : h[i].content[1] = c

\* --------------------------------------------------- the pipeline of a turn
\* C15: the pipeline is never started with a blank transcript: the history
\* holds no blank user entry, and no LLM stream is running for a blank prompt.
NoPipelineForBlankTranscript ==
  /\ \A i \in DOMAIN history :
       history[i].role = "user" => ~Blank(history[i].content)
  /\ pc = "llm" => ~Blank(transcript)

\* a step in which a turn_end message is delivered to the client
TurnEndDelivered == turnEndsSinceSpeech' = turnEndsSinceSpeech + 1

\* the user entries of the session's history
UserEntries(h) == {i \in DOMAIN h : h[i].role = "user"}

\* C16: with the LLM key configured, the step that delivers a turn_end with
\* transcript T appends exactly one user entry with content T to the history
\* and starts exactly one LLM stream, the entry being in the history when the
\* stream starts; no other step appends a user entry or starts an LLM stream.
TurnEndStartsPipelineOnce ==
  [][/\ (TurnEndDelivered /\ geminiKey) =>
          /\ out'[Len(out')] = TurnEndMsg(current_transcript)
          /\ history' = Append(history, [role |-> "user",
                                         content |-> current_transcript])
          /\ llmCalls' = llmCalls + 1
          /\ pc' = "llm"
     /\ (llmCalls' # llmCalls \/ UserEntries(history') # UserEntries(history))
          => TurnEndDelivered /\ geminiKey]_vars

\* an LLM stream has just been started for the turn of the transcript "hi"
\* that a stop message ended
PipelineStartedWitness ==
  /\ pc = "llm"
  /\ accumulated_response = <<>>
  /\ handling.kind = "stop"
  /\ out = <<TurnEndMsg("hi")>>
  /\ history = <<[role |-> "user", content |-> "hi"]>>
  /\ llmCalls = 1

\* the stage of the main flow a message belongs to; 0 for the other messages
StageOf(m) ==
  CASE m.type = "turn_end" -> 1
    [] m.type = "llm_stream_chunk" -> IF m.is_complete THEN 3 ELSE 2
    [] m.type = "murf_base64_audio_chunk" -> IF m.is_complete THEN 5 ELSE 4
    [] m.type = "conversation_complete" -> 6
    [] OTHER -> 0

\* the non-terminal audio chunks sent since the last receive
AudioChunksSent ==
  SelectSeq(out, LAMBDA m : m.type = "murf_base64_audio_chunk" /\ ~m.is_complete)

\* C17: the main-flow messages of a turn are sent in the order turn_end,
\* non-terminal llm_stream_chunks (the increments in the order the LLM produced
\* them), terminal llm_stream_chunk, audio chunks by index, terminal audio
\* chunk, conversation_complete: none of a later stage precedes one of an
\* earlier stage.
MainFlowInOrder ==
  /\ \A i, j \in DOMAIN out :
       (i < j /\ StageOf(out[i]) # 0 /\ StageOf(out[j]) # 0)
         => StageOf(out[i]) <= StageOf(out[j])
  /\ LET S == Streamed(Len(out) + 1)
     IN /\ Len(S) <= Len(accumulated_response)
        /\ S = SubSeq(accumulated_response, 1, Len(S))
  /\ \A k \in DOMAIN AudioChunksSent : AudioChunksSent[k].chunk_index = k - 1
  /\ Count(out, "turn_end") <= 1

\* a turn whose stream produced two different increments has sent them and the
\* terminal chunk after its turn_end
TwoIncrementsWitness ==
  /\ Len(out) >= 4
  /\ StageOf(out[1]) = 1
  /\ StageOf(out[2]) = 2
  /\ StageOf(out[3]) = 2
  /\ out[2].chunk # out[3].chunk
  /\ StageOf(out[4]) = 3

\* the audio stage of the turn's pipeline has finished: the terminal audio
\* chunk or the audio_fallback has been sent
AudioStageFinished ==
  \/ Count(out, "audio_fallback") = 1
  \/ \E i \in DOMAIN out : StageOf(out[i]) = 5

\* C18: a turn whose pipeline has run to its end, its audio stage finished by
\* chunks or by fallback, has sent exactly one conversation_complete, with the
\* turn's transcript, the response R and the length of the history after the
\* assistant entry was appended.
CompletedPipelineIsSummarized ==
  AudioStageFinished =>
    /\ Count(out, "conversation_complete") = 1
    /\ \E i \in DOMAIN out :
         out[i] = ConversationCompleteMsg(history[Len(history) - 1].content,
                                          TurnResponse, Len(history))

\* C19: once a turn attempt has ended and the handler is back in its read
\* loop, whatever the outcome of the pipeline, the detector is waiting again
\* with an empty transcript; and a delivered turn_end carries the transcript
\* held just before the reset, which is the text of the latest transcription
\* alone.
FreshTurnAfterAttempt ==
  [][/\ (pc' = "recv" /\ turnEndsSinceSpeech' = 1)
          => ~is_speaking' /\ current_transcript' = ""
     /\ TurnEndDelivered =>
          /\ current_transcript = lastSpeechText
          /\ Count(out', "turn_end") = 1
          /\ \E i \in DOMAIN out' : out'[i] = TurnEndMsg(current_transcript)]_vars

\* after the turn of "hi" ended with its synthesis failed, the transcription
\* "ok" has started a turn that holds the new text alone
FreshTurnWitness ==
  /\ Len(history) = 2
  /\ history[1] = [role |-> "user", content |-> "hi"]
  /\ pc = "recv"
  /\ is_speaking
  /\ current_transcript = "ok"
  /\ turnEndsSinceSpeech = 0

\* C20: a missing credential short-circuits.  Without the LLM key every
\* delivered turn_end is followed by exactly one pipeline_error, and there is
\* no history entry, no LLM call and no TTS call.  Without the STT key the
\* turn-detection handler sends one error message and returns: it takes no
\* message of the client.
MissingKeyShortCircuits ==
  /\ ~geminiKey =>
       /\ history = <<>>
       /\ llmCalls = 0
       /\ ttsCalls = 0
       /\ Count(out, "pipeline_error") = Count(out, "turn_end")
       /\ \A i \in DOMAIN out :
            out[i].type = "turn_end" =>
              /\ i < Len(out)
              /\ out[i + 1] = PipelineErrorMsg("Gemini API key not configured")
  /\ ~sttKey =>
       /\ pc \in {"connect", "done"}
       /\ handling.kind = "none"
       /\ current_transcript = ""
       /\ pc = "done" =>
            \/ out = <<ErrorMsg("AssemblyAI API key not configured")>>
            \/ out = <<>> /\ deadSends = {"error"}

\* without the LLM key, a stop has ended the turn of "hi": turn_end, then the
\* pipeline_error, and the handler is back in its read loop
NoLlmKeyWitness ==
  /\ ~geminiKey
  /\ pc = "recv"
  /\ handling = [kind |-> "stop", pending |-> TRUE]
  /\ Count(out, "turn_end") = 1
  /\ Count(out, "pipeline_error") = 1
  /\ lastSpeechText = "hi"

\* ------------------------------------------------------ the control messages
\* a step in which the handler takes a message of the given kind
TakesStep(kind) ==
  /\ pc = "recv"
  /\ inbox # <<>>
  /\ Head(inbox).kind = kind
  /\ inbox' = Tail(inbox)

\* C21: a start message, in whatever state it is taken, resets the session to
\* its initial values (buffers empty, transcript empty, no last speech time,
\* detector waiting, cadence clock at the current time) and is answered by
\* exactly one status message, after which the handler reads on.
StartResetsSession ==
  [][TakesStep("start") =>
       /\ audio_chunks' = <<>>
       /\ transcription_buffer' = <<>>
       /\ current_transcript' = ""
       /\ last_speech_time' = 0
       /\ ~is_speaking'
       /\ last_transcription_time' = now
       /\ open => out' = <<StatusMsg("started")>> /\ pc' = "recv"]_vars

\* a start has been taken while the turn of "hi" was pending and audio was
\* buffered
StartDuringTurnWitness ==
  /\ handling = [kind |-> "start", pending |-> TRUE]
  /\ lastSpeechText = "hi"
  /\ out = <<StatusMsg("started")>>
  /\ current_transcript = ""
  /\ audio_chunks = <<>>

\* C22: once a stop message has been handled the recording is drained:
\* audio_chunks is empty, so nothing recorded before the stop is left to be
\* flushed again or to be joined with later fragments.
StopDrainsRecording ==
  (handling.kind = "stop" /\ pc = "recv") => audio_chunks = <<>>

\* C23: a ping that has arrived is answered without waiting for other work of
\* the session: while a transcription or an LLM stream of the connection is
\* outstanding, the handler can take the ping and send its pong.
PingAnsweredWithoutWaiting ==
  (pc \in {"stt", "llm"} /\ inbox # <<>> /\ Head(inbox).kind = "ping")
    => ENABLED TdPing

\* ------------------------------------------- frames that are not messages
\* Text frames that are neither a control message nor audio: a JSON object
\* whose type is not start, stop or ping (or text that is not JSON and fails
\* the base64 test), and JSON text that is not an object, such as 123 or "x".
OtherFrames ==
  {[kind |-> k, len |-> 0] : k \in {"unknown_type", "non_object"}}

\* json.loads returns an object, no branch matches its type, and the frame,
\* a string that fails the base64 test, is skipped
TdUnknownType ==
  /\ Takes("unknown_type")
  /\ Commit(Continue(Received("unknown_type")))
  /\ Taken

\* json.loads returns a value that has no get: AttributeError, which the
\* except json.JSONDecodeError does not catch; the outermost except does
TdNonObject ==
  /\ Takes("non_object")
  /\ Commit(ConnectionError([Received("non_object") EXCEPT !.exc = TRUE]))
  /\ Taken

NextFrames ==
  \/ Next
  \/ \E m \in OtherFrames : ClientSend(m)
  \/ TdUnknownType
  \/ TdNonObject

SpecFrames == Init /\ [][NextFrames]_vars

\* C24: a frame that is neither a control message nor audio is ignored: after
\* it has been taken on an open connection the handler is back in its read
\* loop, with the session as it was.
OtherFramesIgnored ==
  (handling.kind \in {"unknown_type", "non_object"} /\ open)
    => /\ pc = "recv"
       /\ out = <<>>

\* ------------------------------------------------------------ early TTS
\* the length of the trimmed response made of the first n increments
TrimmedLength(n) == Len(Strip(Join(SubSeq(accumulated_response, 1, n))))

SttInvoked == pc # "stt" /\ pc' = "stt"

SpeechOutcomes == {res \in SttOutcomes : res.status = "completed" /\ ~Blank(res.text)}

EmptyOutcomes == {res \in SttOutcomes : res.status = "completed" /\ Blank(res.text)}

FailureOutcomes == {res \in SttOutcomes : res.status # "completed"}

\* the handling that follows outcome res ends the turn in progress
EndsTurn(res) == AfterStt(res).turnEndsSinceSpeech = turnEndsSinceSpeech + 1

\* C27 as stated: after a completed transcription with a blank text
\* current_transcript and last_speech_time are unchanged and no
\* transcription_update has been sent.
EmptyResultLeavesTranscript ==
  pc = "stt" =>
    \A res \in EmptyOutcomes :
      /\ AfterStt(res).current_transcript = current_transcript
      /\ AfterStt(res).last_speech_time = last_speech_time
      /\ Count(AfterStt(res).out, "transcription_update") = 0

\* C27: current_transcript is replaced, never appended to.  After a completed
\* non-blank transcription it is exactly that text, last_speech_time is the
\* current time and one transcription_update with the text has been sent.
\* After a completed blank transcription last_speech_time is unchanged, no
\* transcription_update has been sent, and current_transcript is unchanged
\* unless the tick of silence has ended the turn, which resets it.
TranscriptReplaced ==
  pc = "stt" =>
    /\ \A res \in SpeechOutcomes :
         /\ AfterStt(res).current_transcript = res.text
         /\ AfterStt(res).last_speech_time = now
         /\ AfterStt(res).is_speaking
         /\ open => AfterStt(res).out = <<TranscriptionUpdateMsg(res.text),
                                         ChunkReceivedMsg(audio_data)>>
    /\ \A res \in EmptyOutcomes :
         /\ AfterStt(res).last_speech_time = last_speech_time
         /\ Count(AfterStt(res).out, "transcription_update") = 0
         /\ IF EndsTurn(res)
              THEN AfterStt(res).current_transcript \in {"", current_transcript}
              ELSE AfterStt(res).current_transcript = current_transcript

\* a transcription is outstanding during the turn of "hi"; the text "ok" would
\* replace the transcript, and a blank text would end the turn and reset it
ReplaceOrResetWitness ==
  /\ pc = "stt"
  /\ is_speaking
  /\ current_transcript = "hi"
  /\ AfterStt([status |-> "completed", text |-> "ok"]).current_transcript = "ok"
  /\ EndsTurn([status |-> "completed", text |-> ""])
  /\ AfterStt([status |-> "completed", text |-> ""]).current_transcript = ""

\* the handling of a completed transcription with an empty text
AfterEmpty == AfterStt([status |-> "completed", text |-> ""])

\* C28 as stated, in its part on the transcript: the handling of a failed
\* transcription never changes current_transcript.
FailureLeavesTranscript ==
  pc = "stt" =>
    \A f \in FailureOutcomes : AfterStt(f).current_transcript = current_transcript

\* C28: a failed transcription, by error status or by exception, is handled
\* exactly like an empty result: the handler reaches the same state and has
\* sent the same messages.  It is a tick of silence that ends the turn when
\* the timeout has passed; current_transcript changes only by the reset of a
\* turn so ended; on an open connection the handler goes on, and the fragment
\* is acknowledged.
FailureIsSilenceTick ==
  pc = "stt" =>
    \A f \in FailureOutcomes :
      /\ [AfterStt(f) EXCEPT !.caller = AfterEmpty.caller] = AfterEmpty
      /\ open => AfterStt(f).pc \in {"recv", "llm"}
      /\ (open /\ AfterStt(f).pc = "recv") =>
           AfterStt(f).out[Len(AfterStt(f).out)] = ChunkReceivedMsg(audio_data)
      /\ IF EndsTurn(f)
           THEN AfterStt(f).current_transcript \in {"", current_transcript}
           ELSE AfterStt(f).current_transcript = current_transcript

\* a transcription is outstanding, the turn's timeout has passed, and a raised
\* exception ends the turn and starts its pipeline
FailureEndsTurnWitness ==
  /\ pc = "stt"
  /\ open
  /\ is_speaking
  /\ now - last_speech_time > TurnTimeout
  /\ AfterStt([status |-> "raise", text |-> ""]).pc = "llm"
  /\ Count(AfterStt([status |-> "raise", text |-> ""]).out, "turn_end") = 1

\* no turn can end now: the detector is waiting, or the silence has not
\* lasted longer than the timeout
NoTurnCanEnd == ~is_speaking \/ now - last_speech_time <= TurnTimeout

\* C29: a tick of silence (an empty result or a failed transcription) taken
\* while no turn can end sends no turn_end and leaves current_transcript,
\* last_speech_time, the detector's state and the history unchanged.
SilenceTickIsNoOp ==
  (pc = "stt" /\ NoTurnCanEnd) =>
    \A res \in EmptyOutcomes \cup FailureOutcomes :
      /\ Count(AfterStt(res).out, "turn_end") = 0
      /\ ~EndsTurn(res)
      /\ AfterStt(res).current_transcript = current_transcript
      /\ AfterStt(res).last_speech_time = last_speech_time
      /\ AfterStt(res).is_speaking = is_speaking
      /\ AfterStt(res).history = history
      /\ AfterStt(res).llmCalls = llmCalls

\* a transcription is outstanding exactly TurnTimeout after the speech "hi":
\* the tick of silence is taken while speaking and leaves the turn as it is
TickAtTimeoutWitness ==
  /\ pc = "stt"
  /\ open
  /\ is_speaking
  /\ current_transcript = "hi"
  /\ now - last_speech_time = TurnTimeout
  /\ AfterEmpty.pc = "recv"
  /\ AfterEmpty.is_speaking

\* C30: the terminal llm_stream_chunk carries as full_response the increments
\* of all non-terminal llm_stream_chunks sent before it in the turn, in order;
\* the assistant entry of the history has exactly that content; and while the
\* stream is running the history still ends with the turn's user entry.
ResponseIsConcatenation ==
  /\ \A i \in DOMAIN out :
       StageOf(out[i]) = 3 =>
         /\ out[i].full_response = Streamed(i)
         /\ history[Len(history)] =
              [role |-> "assistant", content |-> out[i].full_response]
         /\ out[i].message_count = Len(history)
  /\ pc = "llm" =>
       /\ history # <<>>
       /\ history[Len(history)] = [role |-> "user", content |-> current_transcript]

\* a stream of two increments has completed: its terminal chunk has been sent
\* and its assistant entry follows the user entry
TwoIncrementResponseWitness ==
  /\ pc = "recv"
  /\ Len(history) = 2
  /\ Len(history[2].content) = 2
  /\ \E i \in DOMAIN out :
       /\ StageOf(out[i]) = 3
       /\ out[i].full_response = history[2].content

\* ------------------------------------------------------ an empty fragment
\* A binary frame of no bytes: ws.receive() returns b'', which is not None,
\* json.loads(b'') raises JSONDecodeError, and the frame is handled as audio.
EmptyFragment == [kind |-> "audio", len |-> 0]

\* the client may send an empty frame as the first fragment of a recording
NextFragments ==
  \/ Next
  \/ (audio_chunks = <<>> /\ ClientSend(EmptyFragment))

SpecFragments == Init /\ [][NextFragments]_vars

\* C31: appending a fragment of length 0 is a no-op: taking an empty fragment
\* while nothing is buffered leaves the bytes of audio_chunks and of the
\* transcription window as they were, and starts no STT call.
EmptyFragmentIsNoOp ==
  [][(Takes("audio") /\ Head(inbox).len = 0)
       => /\ Sum(audio_chunks') = Sum(audio_chunks)
          /\ Sum(transcription_buffer') = Sum(transcription_buffer)
          /\ pc' # "stt"]_vars

\* C32: whenever the detector is in SPEAKING (is_speaking is true) the
\* transcript of the turn is not blank and the time of the last speech is set;
\* hence every turn_end the handler sends carries a transcript that is not
\* blank.
SpeakingHasTranscript ==
  /\ is_speaking => (~Blank(current_transcript) /\ last_speech_time # 0)
  /\ \A i \in 1..Len(out) :
       out[i].type = "turn_end" => ~Blank(out[i].transcript)

\* a turn_end has been sent and the detector is still in SPEAKING, the
\* pipeline of the turn being under way
SpeakingAtTurnEndWitness ==
  /\ pc = "llm"
  /\ is_speaking
  /\ out # <<>>
  /\ out[Len(out)] = TurnEndMsg(current_transcript)

\* ------------------------------------------------------- a long session
\* The history after k turns that ran their pipeline to the assistant entry.
PastTurns(k) ==
  [i \in 1..(2 * k) |->
     IF i % 2 = 1 THEN [role |-> "user", content |-> "ok"]
                  ELSE [role |-> "assistant", content |-> <<"Sure">>]]

\* A connection just accepted, or a session that has completed as many turns
\* as fill the history and has just handled a start message: the handler
\* waits in ws.receive() with the turn, the buffers and the cadence reset.
InitLongSession ==
  /\ sttKey \in BOOLEAN
  /\ geminiKey \in BOOLEAN
  /\ murfKey \in BOOLEAN
  /\ (sttKey /\ geminiKey) \/ (sttKey /\ murfKey) \/ (geminiKey /\ murfKey)
  /\ InitClient
  /\ InitAudio
  /\ store = <<>>
  /\ added = 0
  /\ session_id = <<>>
  /\ InitTts
  /\ \/ InitSession
     \/ /\ sttKey /\ geminiKey
        /\ pc = "recv"
        /\ caller = "none"
        /\ current_transcript = ""
        /\ last_speech_time = 0
        /\ is_speaking = FALSE
        /\ audio_chunks = <<>>
        /\ transcription_buffer = <<>>
        /\ last_transcription_time = now
        /\ current_time = 0
        /\ audio_data = 0
        /\ accumulated_response = <<"Sure">>
        /\ history = PastTurns(MAX_CHAT_HISTORY \div 2)
        /\ out = <<StatusMsg("started")>>
        /\ deadSends = {}
        /\ llmCalls = 0
        /\ ttsCalls = 0
        /\ ttsEngine = NoEngine
        /\ llmRaised = FALSE
        /\ lastSpeechText = ""
        /\ speechAt = 0
        /\ turnEndsSinceSpeech = 0
        /\ handling = [kind |-> "start", pending |-> FALSE]
        /\ sttInvokedAt = 0

SpecLongSession == InitLongSession /\ [][Next]_vars

\* C33: the history of a session alternates roles: no two neighbouring
\* entries have the same role, whatever the outcome of the turns and also
\* after eviction at the history bound; and while the connection is open and
\* no pipeline is under way the user entry of every turn has been followed by
\* its assistant entry, so that the latest entry is an assistant entry.
HistoryAlternates ==
  /\ \A i \in 1..(Len(history) - 1) : history[i].role # history[i + 1].role
  /\ (open /\ pc \in {"recv", "stt"} /\ history # <<>>)
       => history[Len(history)].role = "assistant"
  /\ (pc = "llm" /\ history # <<>>) => history[Len(history)].role = "user"

\* a send of the LLM stream has failed on a full history: the user entry of
\* the turn evicted the oldest entry and no assistant entry follows it
EvictedThenAbortedWitness ==
  /\ pc = "done"
  /\ "llm_stream_chunk" \in deadSends
  /\ Len(history) = MAX_CHAT_HISTORY
  /\ history[1].role = "assistant"
  /\ history[Len(history)] = [role |-> "user", content |-> "hi"]

\* C34: a start message taken while a turn is pending (the detector in
\* SPEAKING with a transcript that is not blank) discards the turn: the step
\* sends no turn_end, adds no history entry, starts no pipeline and leaves the
\* detector waiting with an empty transcript; and a turn_end is only ever sent
\* for the transcript the detector holds at that time, so the discarded text is
\* in no later turn_end.
StartDiscardsTurn ==
  [][/\ (TakesStep("start") /\ TurnPending(Local))
          => /\ \A i \in 1..Len(out') : out'[i].type # "turn_end"
             /\ "turn_end" \notin deadSends'
             /\ history' = history
             /\ llmCalls' = llmCalls
             /\ current_transcript' = ""
             /\ ~is_speaking'
             /\ pc' # "llm"
     /\ \A i \in 1..Len(out') :
          (out' # out /\ out'[i].type = "turn_end")
            => /\ TurnPending(Local)
               /\ out'[i].transcript = current_transcript]_vars

\* the turn of "hi" was discarded by a start: the stop that follows finds no
\* turn to end and is answered by its status message alone
StopAfterDiscardWitness ==
  /\ handling = [kind |-> "stop", pending |-> FALSE]
  /\ lastSpeechText = "hi"
  /\ turnEndsSinceSpeech = 0
  /\ nSent = 3
  /\ history = <<>>
  /\ out = <<StatusMsg("stopped")>>

\* --------------------------------------------- fragments of other lengths
\* binary frames of no bytes and of two units, beside the frames of one unit
OtherFragments == {[kind |-> "audio", len |-> n] : n \in {0, 2}}

NextWAFragments ==
  \/ NextWA
  \/ \E m \in OtherFragments : WaClientSend(m)

SpecWAFragments == InitWA /\ [][NextWAFragments]_vars

\* C35: the transcription window is a suffix of audio_chunks: the fragments
\* received since the last cycle are the last fragments of the recording, so
\* the window is never longer than the recording, in fragments or in bytes.
WindowIsSuffixOfRecording ==
  LET w == transcription_buffer
      a == audio_chunks
  IN /\ Len(w) <= Len(a)
     /\ SubSeq(a, Len(a) - Len(w) + 1, Len(a)) = w
     /\ Sum(w) <= Sum(a)

\* the window holds the fragment received since the last cycle, the recording
\* that fragment and the one before it
ProperSuffixWitness ==
  /\ pc = "recv"
  /\ audio_chunks = <<1, 2>>
  /\ transcription_buffer = <<2>>

\* ------------------------------------------------------ the two endpoints
\* A connection is accepted on one of the two endpoints and handled by that
\* endpoint's handler; session_id holds the prefix of its session id.
InitEndpoints ==
  /\ sttKey \in BOOLEAN
  /\ geminiKey \in BOOLEAN
  /\ murfKey \in BOOLEAN
  /\ (sttKey /\ geminiKey) \/ (sttKey /\ murfKey) \/ (geminiKey /\ murfKey)
  /\ open = TRUE
  /\ inbox = <<>>
  /\ nSent = 0
  /\ session_id \in Endpoints
  /\ InitTts
  /\ now = IF session_id = "turn_detection"
             THEN TranscriptionInterval
             ELSE AudioTranscriptionInterval
  /\ InitSession
  /\ InitAudio
  /\ store = <<>>
  /\ added = 0

NextEndpoints ==
  \/ session_id = "turn_detection" /\ Next
  \/ session_id = "ws_session" /\ NextWA

SpecEndpoints == InitEndpoints /\ [][NextEndpoints]_vars

\* C36: the endpoints differ on an STT call that raises.  On
\* /ws/turn-detection every cycle, whatever its outcome, ends with the window
\* empty and the time of the last transcription advanced to the cycle's time.
\* On /ws/audio a call that raises leaves the window and the time of the last
\* transcription as they were, so that a transcription is still due and the
\* next fragment calls STT again, on the accumulated window.
EndpointsDifferOnSttFailure ==
  [][/\ (/\ session_id = "turn_detection"
         /\ handling.kind = "audio"
         /\ pc \in {"stt", "llm"}
         /\ pc' = "recv")
          => /\ transcription_buffer' = <<>>
             /\ last_transcription_time' = current_time
     /\ (session_id = "ws_session" /\ pc = "stt")
          => LET a == AfterAudioStt([status |-> "raise", text |-> ""])
             IN /\ a.transcription_buffer = transcription_buffer
                /\ a.last_transcription_time = last_transcription_time
                /\ a.transcription_buffer # <<>>
                /\ now - a.last_transcription_time >= AudioTranscriptionInterval
     /\ (/\ session_id = "ws_session"
         /\ TakesStep("audio")
         /\ sttKey
         /\ now - last_transcription_time >= AudioTranscriptionInterval)
          => /\ pc' = "stt"
             /\ transcription_buffer'
                  = Append(transcription_buffer, Head(inbox).len)]_vars

\* /ws/audio: the first fragment's transcription raised, and the second
\* fragment has started a transcription of both
RetryOnAccumulatedWindowWitness ==
  /\ session_id = "ws_session"
  /\ pc = "stt"
  /\ nSent = 2
  /\ transcription_buffer = <<1, 1>>
  /\ last_transcription_time = 0

\* C37: on /ws/audio the recording holds the fragments accepted since the last
\* start, and once the handling of a fragment is back in ws.receive() exactly
\* one chunk_received has been sent for it, as the last message and so after
\* the transcription message of the cycle if there is one; its chunk_size is
\* the fragment's length and its total_size the sum of the lengths of the
\* fragments of the recording.
FragmentAcknowledgedOnce ==
  [][/\ TakesStep("audio")
          => /\ audio_chunks' = Append(audio_chunks, Head(inbox).len)
             /\ audio_data' = Head(inbox).len
     /\ TakesStep("start") => audio_chunks' = <<>>
     /\ ~(TakesStep("audio") \/ TakesStep("start"))
          => UNCHANGED <<audio_chunks, audio_data>>
     /\ (handling'.kind = "audio" /\ pc' = "recv")
          => LET ack == AudioChunkReceivedMsg(audio_data', Sum(audio_chunks'))
             IN /\ out' # <<>>
                /\ out'[Len(out')] = ack
                /\ Count(out', "chunk_received") = 1
                /\ Len(out') <= 2
                /\ Len(out') = 2 => out'[1].type = "transcription"]_vars

\* the third fragment of a recording has been transcribed and acknowledged:
\* the fragment has two units, the recording four
ThirdFragmentAcknowledgedWitness ==
  /\ pc = "recv"
  /\ handling.kind = "audio"
  /\ audio_chunks = <<1, 1, 2>>
  /\ out = <<TranscriptionMsg("hi"), AudioChunkReceivedMsg(2, 4)>>

\* C38: on /ws/audio a stop taken before any start, or with no fragment
\* buffered, is answered by one error message, 'No audio data to save', and by
\* nothing else: from the taking of the stop to the taking of the next message
\* the handler only sends that message, calls no transcription, starts no
\* pipeline, and leaves the recording, the transcript and the history as they
\* were.
StopWithoutRecordingIsError ==
  [][(handling'.kind = "stop" /\ (~current_file_path' \/ audio_chunks' = <<>>))
       => /\ UNCHANGED <<recordingVars, pipelineVars>>
          /\ pc' \in {"send", "sending", "recv", "done"}
          /\ pc' # "done" => out' \o outbox' = <<ErrorMsg("No audio data to save")>>
          /\ pc' = "recv" => out' = <<ErrorMsg("No audio data to save")>>]_vars

\* a stop taken before any start, a fragment being buffered, has been answered
StopBeforeStartWitness ==
  /\ pc = "recv"
  /\ handling.kind = "stop"
  /\ ~current_file_path
  /\ audio_chunks = <<1>>
  /\ history = <<>>
  /\ out = <<ErrorMsg("No audio data to save")>>

\* ------------------------------------- the splitting of the encoded audio
\* generate_streaming_base64_audio from the download of the synthesized audio
\* to its return: the audio is encoded and the encoded text cut into chunks.
\* The request that precedes these statements raises in this build (see
\* CurrentApiKeyBound), so they are checked on their own, as the function of
\* the downloaded bytes and the chunk size that they are.
MaxAudioBytes == 4
MaxChunkSize == 5

\* the bytes of a downloaded audio file
AudioByteValues == {0, 77, 255}
AudioContents ==
  UNION {[1..n -> AudioByteValues] : n \in 0..MaxAudioBytes}
ChunkSizes == 1..MaxChunkSize

B64Alphabet ==
  "ABCDEFGHIJKLMNOPQRSTUVWXYZabcdefghijklmnopqrstuvwxyz0123456789+/"
B64Char(v) == SubSeq(B64Alphabet, v + 1, v + 1)

\* base64.b64encode(audio_data).decode('utf-8')
RECURSIVE b64encode(_)
b64encode(d) ==
  IF Len(d) = 0 THEN ""
  ELSE IF Len(d) = 1
    THEN B64Char(d[1] \div 4) \o B64Char((d[1] % 4) * 16) \o "=="
  ELSE IF Len(d) = 2
    THEN B64Char(d[1] \div 4) \o B64Char((d[1] % 4) * 16 + d[2] \div 16)
           \o B64Char((d[2] % 16) * 4) \o "="
  ELSE B64Char(d[1] \div 4) \o B64Char((d[1] % 4) * 16 + d[2] \div 16)
         \o B64Char((d[2] % 16) * 4 + d[3] \div 64) \o B64Char(d[3] % 64)
         \o b64encode(SubSeq(d, 4, Len(d)))

\* the slices one character short: base64_audio[i:i + chunk_size - 1]
RECURSIVE SplitBase64ShortSlices(_, _, _)
SplitBase64ShortSlices(s, i, size) ==
  IF i >= Len(s) THEN <<>>
  ELSE <<SubSeq(s, i + 1, Min(i + size - 1, Len(s)))>>
         \o SplitBase64ShortSlices(s, i + size, size)

\* for i in range(i, len(s), size): base64_chunks.append(s[i:i + size])
RECURSIVE SplitBase64(_, _, _)
SplitBase64(s, i, size) ==
  IF i >= Len(s) THEN <<>>
  ELSE <<SubSeq(s, i + 1, Min(i + size, Len(s)))>> \o SplitBase64(s, i + size, size)

\* the download has returned the audio d; the function returns
\* True, base64_chunks, None
TtsSplit(d, size) ==
  /\ murfKey
  /\ ~success
  /\ base64_audio' = b64encode(d)
  /\ tts_chunk_size' = size
  /\ base64_chunks' = SplitBase64(b64encode(d), 0, size)
  /\ success' = TRUE
  /\ UNCHANGED <<configVars, clientVars, sessionVars, chatVars, audioVars>>

NextSplit == \E d \in AudioContents, size \in ChunkSizes : TtsSplit(d, size)

SpecSplit == Init /\ [][NextSplit]_vars

\* C39: the encoded audio is split without loss: when the function has
\* returned successfully the chunks joined in order are the whole base64
\* string, every chunk has at least one and at most chunk_size characters,
\* every chunk but the last has exactly chunk_size, and there are
\* ceil(length / chunk_size) chunks, none for empty audio.
SplitIsLossless ==
  success =>
    LET n == Len(base64_chunks)
    IN /\ Join(base64_chunks) = base64_audio
       /\ \A i \in 1..n : Len(base64_chunks[i]) \in 1..tts_chunk_size
       /\ \A i \in 1..(n - 1) : Len(base64_chunks[i]) = tts_chunk_size
       /\ n = (Len(base64_audio) + tts_chunk_size - 1) \div tts_chunk_size
       /\ base64_audio = "" => n = 0

\* eight encoded characters cut by threes: two full chunks and a last chunk of
\* two, which holds the padding
ShortLastChunkWitness ==
  /\ success
  /\ base64_audio = "AE3/TQ=="
  /\ base64_chunks = <<"AE3", "/TQ", "==">>

====
